---- MODULE Spec2Model ----
(***************************************************************************)
(* A model of the ic2-rs I2C master driver (src/src/lib.rs,                *)
(* src/src/messages.rs, src/src/func.rs): the handle with its capability   *)
(* set and address, the message batch over caller-owned buffers, and the   *)
(* I2C_RDWR transaction.                                                   *)
(*                                                                         *)
(* Bitmasks (u16 message flags, c_ulong capabilities) are modelled as the  *)
(* set of the indices of their set bits, so that a 64-bit mask needs no    *)
(* 64-bit integer: `a & b` is intersection, `a | b` union and `!a` the     *)
(* complement within the type's width.                                     *)
(***************************************************************************)
EXTENDS Integers, Sequences, FiniteSets, TLC

(* ------------------------------ bounds -------------------------------- *)

\* The longest batch the builder is driven to.
MaxMsgs == 2
\* The operations stop once the I2C_RDWR ioctl was invoked MaxCalls times.
MaxCalls == 2
\* The masks of the require_func check range over the bits 0..FuncBits-1.
FuncBits == 5
\* The longest payload handed to i2c_write and the longest i2c_read_bytes request.
MaxLen == 2

(* -------------------------- program constants ------------------------- *)

I2C_M_RD == 1
I2C_M_TEN == 16
I2C_M_RECV_LEN == 1024
I2C_M_NO_RD_ACK == 2048
I2C_M_IGNORE_NACK == 4096
I2C_M_REV_DIR_ADDR == 8192
I2C_M_NOSTART == 16384
I2C_FUNC_I2C == 1
I2C_FUNC_10BIT_ADDR == 2
\* widths of u16 and of c_ulong (64 bits on an LP64 target)
U16Width == 16
ULongWidth == 64
\* the address limits of I2c::open
Addr7Max == 127
Addr10Max == 1023

(* ------------------------------ bitmasks ------------------------------ *)

RECURSIVE BitsFrom(_, _)
BitsFrom(n, i) ==
    IF n = 0 THEN {}
    ELSE (IF n % 2 = 1 THEN {i} ELSE {}) \cup BitsFrom(n \div 2, i + 1)

\* the mask of a numeric literal
Bits(n) == BitsFrom(n, 0)

BitAnd(a, b) == a \cap b
BitOr(a, b) == a \cup b
BitNot(a, width) == (0 .. (width - 1)) \ a

\* the byte values the model draws from (a u8 in the program)
Byte == {0, 1}

\* ids of the buffers messages point at: the caller's buffers (buffer i is i bytes
\* long), and the storage the helpers create themselves
UserBufs == {1, 2}
RegSlot == 0     \* the local `reg` of I2cMessage::read_reg
NewBuf == -1     \* the vector `new_buff` of I2cMessage::write_reg
RegArg == -2     \* the parameter `register` of i2c_read and i2c_read_bytes
VecBuf == -3     \* the vector `buffer` of i2c_read_bytes
WriteVec == -4   \* the vector `new_buffer` of i2c_write
BufIds == UserBufs \cup {RegSlot, NewBuf, RegArg, VecBuf, WriteVec}

RECURSIVE SeqsUpTo(_, _)
SeqsUpTo(S, n) ==
    IF n = 0 THEN {<<>>}
    ELSE LET shorter == SeqsUpTo(S, n - 1)
         IN shorter \cup {Append(s, x) : s \in {t \in shorter : Len(t) = n - 1}, x \in S}

Zeros(n) == [i \in 1 .. n |-> 0]

VARIABLES
    handle,     \* the I2c value: [st, addr, func]
    bstate,     \* "none", "building" (an I2cBuffer exists) or "vec" (a bare Vec<I2cMessage>)
    batch,      \* the message array: Seq of [addr, flags, len, buffer]
    log,        \* history: for each append, how it was asked for
    mem,        \* the content of every buffer
    dead,       \* buffers whose storage is gone while a message still points at them
    calls,      \* how many times the I2C_RDWR ioctl was invoked
    execs,      \* history: transactions the current builder issued, and its length when last executed
    last,       \* history: what the last operation was given and what it returned
    prevWrite,  \* history: <<r, v>> when the operation before the last one wrote v to register r
    regs,       \* the simulated device: its register file
    ptr         \* the simulated device: its register pointer

vars == <<handle, bstate, batch, log, mem, dead, calls, execs, last, prevWrite, regs, ptr>>

(* ------------------------------ func.rs ------------------------------- *)

\* Functionality::_10_bit_addr
Func_10_bit_addr(func) == BitAnd(func, Bits(I2C_FUNC_10BIT_ADDR)) # {}

(* ------------------------------- lib.rs ------------------------------- *)

NoHandle == [st |-> "none", addr |-> 0, func |-> {}]

\* the results: Ok, or an I2cError variant with the IoctlError variant it wraps
Ok == [tag |-> "Ok", inner |-> "", missing |-> {}]
Err(tag, inner, missing) == [tag |-> tag, inner |-> inner, missing |-> missing]

\* a get_err that takes 0 for a failure
get_err_positive(code) == code > 0

\* get_err: a non-negative ioctl return is Ok
get_err(code) == code >= 0

\* a require_func without the complement
require_func_held(func, mask) ==
    LET missing == BitAnd(func, mask)
    IN [ok |-> missing = {}, missing |-> missing]

\* I2c::require_func: the requested bits the capability set lacks
require_func(func, mask) ==
    LET missing == BitAnd(BitNot(func, ULongWidth), mask)
    IN [ok |-> missing = {}, missing |-> missing]

\* an address check that applies the 7-bit limit whatever the capability
AddressTooLong_7bit(func, addr) == addr > Addr7Max

\* the address check of I2c::open
AddressTooLong(func, addr) ==
    (~Func_10_bit_addr(func) /\ addr > Addr7Max)
        \/ (Func_10_bit_addr(func) /\ addr > Addr10Max)

\* an i2c_rdwr_ioctl without the capability check
i2c_rdwr_ioctl_unchecked(func, rc) ==
    IF get_err(rc)
    THEN [called |-> TRUE, ok |-> TRUE, inner |-> "", missing |-> {}]
    ELSE [called |-> TRUE, ok |-> FALSE, inner |-> "IoctlError", missing |-> {}]

\* i2c_rdwr_ioctl: the capability check, then the ioctl, whose return is rc
i2c_rdwr_ioctl(func, rc) ==
    LET r == require_func(func, Bits(I2C_FUNC_I2C))
    IN IF ~r.ok
       THEN [called |-> FALSE, ok |-> FALSE, inner |-> "FunctionalityError", missing |-> r.missing]
       ELSE IF get_err(rc)
            THEN [called |-> TRUE, ok |-> TRUE, inner |-> "", missing |-> {}]
            ELSE [called |-> TRUE, ok |-> FALSE, inner |-> "IoctlError", missing |-> {}]

\* map_err at a call site: the error is wrapped in the call site's variant
Tagged(tag, r) == IF r.ok THEN Ok ELSE Err(tag, r.inner, r.missing)

(* ----------------------------- messages.rs ---------------------------- *)

Message(addr, flags, len, buffer) ==
    [addr |-> addr, flags |-> flags, len |-> len, buffer |-> buffer]

\* an add_raw that puts the message in front
add_raw_front(buf, addr, flags, len, buffer) == <<Message(addr, flags, len, buffer)>> \o buf

\* I2cMessageBuffer::add_raw
add_raw(buf, addr, flags, len, buffer) == Append(buf, Message(addr, flags, len, buffer))

\* I2cMessageBuffer::add_read
add_read(buf, addr, flags, len, buffer) ==
    add_raw(buf, addr, BitOr(flags, Bits(I2C_M_RD)), len, buffer)

\* an add_write that leaves the read flag as the caller gave it
add_write_keep(buf, addr, flags, len, buffer) == add_raw(buf, addr, flags, len, buffer)

\* I2cMessageBuffer::add_write
add_write(buf, addr, flags, len, buffer) ==
    add_raw(buf, addr, BitAnd(flags, BitNot(Bits(I2C_M_RD), U16Width)), len, buffer)

\* I2cMessageBuffer::add_read_reg, which lib.rs calls and messages.rs does not hold
add_read_reg(buf, addr, flags, regbuf, len, buffer) ==
    add_read(add_write(buf, addr, flags, 1, regbuf), addr, flags, len, buffer)

\* I2cMessage::read_reg
read_reg(addr, len, buffer) ==
    <<Message(addr, Bits(0), 1, RegSlot), Message(addr, Bits(1), len, buffer)>>

\* I2cMessage::write_reg
write_reg(addr, len) == <<Message(addr, Bits(I2C_M_RD), len, NewBuf)>>

\* I2cReadWriteData::from_messages: the array and its count
from_messages(buf) == [messages |-> buf, num |-> Len(buf)]

(* ------------------- the I2C_RDWR ioctl and the device ---------------- *)

IsRead(m) == 0 \in m.flags

\* what the transaction sees: each message with the bytes its buffer holds
Observed(msgs, m) ==
    [i \in 1 .. Len(msgs) |->
        [addr |-> msgs[i].addr, flags |-> msgs[i].flags, len |-> msgs[i].len,
         buffer |-> msgs[i].buffer, data |-> SubSeq(m[msgs[i].buffer], 1, msgs[i].len)]]

\* a successful transaction copies the bytes read into the buffer of every
\* message that carries I2C_M_RD, and touches no other memory
KernelCopy(msgs, m, reads) ==
    [b \in DOMAIN m |->
        LET I == {i \in 1 .. Len(msgs) : IsRead(msgs[i]) /\ msgs[i].buffer = b}
        IN IF I = {} THEN m[b]
           ELSE LET i == CHOOSE x \in I : \A y \in I : y <= x
                IN reads[i] \o SubSeq(m[b], msgs[i].len + 1, Len(m[b]))]

FillLen == MaxLen + 1

\* history: the bytes of memory a successful transaction stores into
KernelWritten(msgs) ==
    {<<msgs[p[1]].buffer, p[2]>> :
        p \in {q \in (1 .. Len(msgs)) \X (1 .. FillLen) :
                  IsRead(msgs[q[1]]) /\ q[2] <= msgs[q[1]].len}}

\* an arbitrary adapter: the bytes it returns are any bytes
AnyReads(msgs, fill) == [i \in 1 .. Len(msgs) |-> SubSeq(fill, 1, msgs[i].len)]

\* a register device: the first byte written selects the register, the bytes
\* after it are stored from there on, and a read returns the stored bytes
NextPtr(p) == (p + 1) % Cardinality(Byte)

RECURSIVE DevWrite(_, _, _, _)
DevWrite(rg, p, d, k) ==
    IF k > Len(d) THEN [regs |-> rg, ptr |-> p]
    ELSE DevWrite([rg EXCEPT ![p] = d[k]], NextPtr(p), d, k + 1)

RECURSIVE DevRead(_, _, _, _)
DevRead(rg, p, n, acc) ==
    IF Len(acc) = n THEN [data |-> acc, ptr |-> p]
    ELSE DevRead(rg, NextPtr(p), n, Append(acc, rg[p]))

RECURSIVE EchoRun(_, _, _, _, _)
EchoRun(sent, i, rg, p, reads) ==
    IF i > Len(sent) THEN [regs |-> rg, ptr |-> p, reads |-> reads]
    ELSE IF IsRead(sent[i])
         THEN LET r == DevRead(rg, p, sent[i].len, <<>>)
              IN EchoRun(sent, i + 1, rg, r.ptr, [reads EXCEPT ![i] = r.data])
         ELSE IF sent[i].len = 0
              THEN EchoRun(sent, i + 1, rg, p, reads)
              ELSE LET w == DevWrite(rg, sent[i].data[1], sent[i].data, 2)
                   IN EchoRun(sent, i + 1, w.regs, w.ptr, reads)

\* the device's answer to a transaction: with echo, the register device; without,
\* the bytes of fill
Device(echo, sent, fill) ==
    IF echo THEN EchoRun(sent, 1, regs, ptr, [i \in 1 .. Len(sent) |-> <<>>])
    ELSE [regs |-> regs, ptr |-> ptr, reads |-> AnyReads(sent, fill)]

(* ------------------------------ operations ---------------------------- *)

\* history: no operation yet; a new builder forgets the record of the one dropped
NoLast == [op |-> "none", result |-> Ok, func |-> {}, callsBefore |-> 0,
           called |-> FALSE, rc |-> 0, sent |-> <<>>, log |-> <<>>,
           changed |-> {}, written |-> {}, ret |-> <<>>, arg |-> <<>>]

\* history: the current builder was never executed
NoExecs == [issued |-> 0, len |-> -1]

LogEntry(kind, flags, buffer, reg) ==
    [kind |-> kind, flags |-> flags, buffer |-> buffer, reg |-> reg]

LastRec(op, result, func, called, rc, sent, lg, changed, written, ret, arg) ==
    [op |-> op, result |-> result, func |-> func, callsBefore |-> calls,
     called |-> called, rc |-> rc, sent |-> sent, log |-> lg,
     changed |-> changed, written |-> written, ret |-> ret, arg |-> arg]

\* history: <<r, v>> when the operation was a successful write of the one byte
\* v to register r: i2c_write(r, [v]), or a batch of one write message [r, v]
RegWriteOf(l) ==
    IF l.result # Ok \/ ~l.called THEN <<>>
    ELSE IF l.op = "i2c_write"
         THEN IF Len(l.arg) = 2 THEN l.arg ELSE <<>>
         ELSE IF l.op = "execute" /\ Len(l.log) = 1
              THEN IF l.log[1].kind = "write" /\ Len(l.sent[1].data) = 2
                   THEN l.sent[1].data ELSE <<>>
              ELSE <<>>

\* buffers the living I2cBuffer<'a> borrows, and those it borrows mutably
Borrowed == IF bstate = "building" THEN {log[i].buffer : i \in DOMAIN log} ELSE {}
MutBorrowed ==
    IF bstate = "building"
    THEN {log[i].buffer : i \in {j \in DOMAIN log : log[j].kind \in {"read", "raw"}}}
    ELSE {}

\* an execute that takes self: the builder is gone after it
AfterExecute_consumed(st) == "none"

\* I2cBuffer::execute takes &self: the builder and its messages stay as they were
AfterExecute(st) == st

\* an i2c_write that sends the caller's bytes without the register
NewBuffer_noreg(register, buffer) == buffer

\* the vector i2c_write sends: the register, then the caller's bytes
NewBuffer(register, buffer) == <<register>> \o buffer

\* from_messages, then i2c_rdwr_ioctl, with the call site's map_err: what every
\* operation that runs a transaction does with its message array
Rdwr(op, tag, msgs, lg, m0, locals, retbufs, arg, rc, echo, fill) ==
    LET data == from_messages(msgs)
        r == i2c_rdwr_ioctl(handle.func, rc)
        sent == Observed(SubSeq(data.messages, 1, data.num), m0)
        done == r.called /\ rc >= 0
        dev == Device(echo, sent, fill)
        m1 == IF done THEN KernelCopy(sent, m0, dev.reads) ELSE m0
    IN /\ calls < MaxCalls
       /\ calls' = IF r.called THEN calls + 1 ELSE calls
       /\ mem' = [b \in DOMAIN m1 |-> IF b \in locals THEN <<>> ELSE m1[b]]
       /\ regs' = IF done THEN dev.regs ELSE regs
       /\ ptr' = IF done THEN dev.ptr ELSE ptr
       /\ prevWrite' = RegWriteOf(last)
       /\ last' = LastRec(op, Tagged(tag, r), handle.func, r.called, rc,
                          IF r.called THEN sent ELSE <<>>, lg,
                          {b \in DOMAIN m0 : m1[b] # m0[b]},
                          IF done THEN KernelWritten(sent) ELSE {},
                          IF r.ok /\ retbufs # {} THEN m1[CHOOSE b \in retbufs : TRUE] ELSE <<>>,
                          arg)

\* I2c::open: open the device, query the capabilities, check the address
Open(a, c, fileOk, frc) ==
    LET result == IF ~fileOk THEN Err("FileError", "", {})
                  ELSE IF ~get_err(frc) THEN Err("IoctlError", "IoctlError", {})
                  ELSE IF AddressTooLong(c, a) THEN Err("AddressError", "", {})
                  ELSE Ok
    IN /\ handle' = IF result = Ok THEN [st |-> "open", addr |-> a, func |-> c] ELSE NoHandle
       /\ bstate' = "none"
       /\ batch' = <<>>
       /\ log' = <<>>
       /\ execs' = NoExecs
       /\ dead' = {}
       /\ prevWrite' = <<>>
       /\ last' = LastRec("open", result, c, FALSE, frc, <<>>, <<>>, {}, {}, <<>>,
                          <<a, IF fileOk THEN 1 ELSE 0, frc>>)
       /\ UNCHANGED <<mem, calls, regs, ptr>>

\* the tests' `handle.func = Functionality::new(c)`: the handle is mutated, so
\* no builder borrows it any more
SetFunc(c) ==
    /\ handle.st = "open"
    /\ handle' = [handle EXCEPT !.func = c]
    /\ bstate' = "none"
    /\ batch' = <<>>
    /\ log' = <<>>
    /\ execs' = NoExecs
    /\ dead' = {}
    /\ last' = NoLast
    /\ prevWrite' = <<>>
    /\ UNCHANGED <<mem, calls, regs, ptr>>

\* I2c::i2c_buffer
I2cBufferNew ==
    /\ handle.st = "open"
    /\ bstate' = "building"
    /\ batch' = <<>>
    /\ log' = <<>>
    /\ execs' = NoExecs
    /\ dead' = {}
    /\ last' = IF last.op \in {"execute", "transact"} THEN NoLast ELSE last
    /\ UNCHANGED <<handle, mem, calls, prevWrite, regs, ptr>>

\* I2cBuffer::add_read
AddRead(f, b) ==
    /\ bstate = "building"
    /\ Len(batch) < MaxMsgs
    /\ b \in UserBufs \ Borrowed
    /\ batch' = add_read(batch, handle.addr, f, Len(mem[b]), b)
    /\ log' = Append(log, LogEntry("read", f, b, 0))
    /\ UNCHANGED <<handle, bstate, mem, dead, calls, execs, last, prevWrite, regs, ptr>>

\* I2cBuffer::add_write
AddWrite(f, b) ==
    /\ bstate = "building"
    /\ Len(batch) < MaxMsgs
    /\ b \in UserBufs \ MutBorrowed
    /\ batch' = add_write(batch, handle.addr, f, Len(mem[b]), b)
    /\ log' = Append(log, LogEntry("write", f, b, 0))
    /\ UNCHANGED <<handle, bstate, mem, dead, calls, execs, last, prevWrite, regs, ptr>>

\* I2cBuffer::add_raw
AddRaw(f, b) ==
    /\ bstate = "building"
    /\ Len(batch) < MaxMsgs
    /\ b \in UserBufs \ Borrowed
    /\ batch' = add_raw(batch, handle.addr, f, Len(mem[b]), b)
    /\ log' = Append(log, LogEntry("raw", f, b, 0))
    /\ UNCHANGED <<handle, bstate, mem, dead, calls, execs, last, prevWrite, regs, ptr>>

\* I2cBuffer::execute
Execute(rc, echo, fill) ==
    /\ bstate = "building"
    /\ Rdwr("execute", "BufferError", batch, log, mem, {}, {}, <<>>, rc, echo, fill)
    /\ execs' = [issued |-> execs.issued + (calls' - calls), len |-> Len(batch)]
    /\ bstate' = AfterExecute(bstate)
    /\ UNCHANGED <<handle, batch, log, dead>>

\* I2c::i2c_read_bytes
I2cReadBytes(register, bytes, rc, echo, fill) ==
    LET m0 == [mem EXCEPT ![RegArg] = <<register>>, ![VecBuf] = Zeros(bytes)]
        messages == add_read_reg(<<>>, handle.addr, Bits(0), RegArg, bytes, VecBuf)
        lg == <<LogEntry("reg_select", Bits(0), RegArg, register),
                LogEntry("reg_read", Bits(0), VecBuf, register)>>
    IN /\ handle.st = "open"
       /\ Rdwr("i2c_read_bytes", "ReadError", messages, lg, m0, {RegArg, VecBuf}, {VecBuf},
               <<register, bytes>>, rc, echo, fill)
       /\ UNCHANGED <<handle, bstate, batch, log, dead, execs>>

\* I2c::i2c_read
I2cRead(register, b, rc, echo, fill) ==
    LET m0 == [mem EXCEPT ![RegArg] = <<register>>]
        messages == add_read_reg(<<>>, handle.addr, Bits(0), RegArg, Len(mem[b]), b)
        lg == <<LogEntry("reg_select", Bits(0), RegArg, register),
                LogEntry("reg_read", Bits(0), b, register)>>
    IN /\ handle.st = "open"
       /\ b \in UserBufs \ Borrowed
       /\ Rdwr("i2c_read", "ReadError", messages, lg, m0, {RegArg}, {b},
               <<register, Len(mem[b])>>, rc, echo, fill)
       /\ UNCHANGED <<handle, bstate, batch, log, dead, execs>>

\* I2c::i2c_write
I2cWrite(register, buffer, rc, echo, fill) ==
    LET new_buffer == NewBuffer(register, buffer)
        m0 == [mem EXCEPT ![WriteVec] = new_buffer]
        messages == add_write(<<>>, handle.addr, Bits(0), Len(new_buffer), WriteVec)
        lg == <<LogEntry("write", Bits(0), WriteVec, register)>>
    IN /\ handle.st = "open"
       /\ Rdwr("i2c_write", "WriteError", messages, lg, m0, {WriteVec}, {},
               <<register>> \o buffer, rc, echo, fill)
       /\ UNCHANGED <<handle, bstate, batch, log, dead, execs>>

\* I2cMessage::read_reg: the first message points at the local `reg`, which is
\* gone when the function returns: what the slot holds from then on (junk) is
\* whatever the build leaves or puts there
ReadReg(reg, b, junk) ==
    /\ handle.st = "open"
    /\ b \in UserBufs
    /\ bstate' = "vec"
    /\ batch' = read_reg(handle.addr, Len(mem[b]), b)
    /\ log' = <<LogEntry("reg_select", Bits(0), RegSlot, reg),
                LogEntry("reg_read", Bits(0), b, reg)>>
    /\ mem' = [mem EXCEPT ![RegSlot] = <<junk>>]
    /\ dead' = {RegSlot}
    /\ execs' = NoExecs
    /\ last' = IF last.op \in {"execute", "transact"} THEN NoLast ELSE last
    /\ UNCHANGED <<handle, calls, prevWrite, regs, ptr>>

\* I2cMessage::write_reg: the message points at the vector new_buff, which is
\* freed when the function returns
WriteReg(reg, buffer, junk) ==
    LET new_buff == <<reg>> \o buffer
    IN /\ handle.st = "open"
       /\ Len(junk) = Len(new_buff)
       /\ bstate' = "vec"
       /\ batch' = write_reg(handle.addr, Len(new_buff))
       /\ log' = <<LogEntry("write_reg", Bits(0), NewBuf, reg)>>
       /\ mem' = [mem EXCEPT ![NewBuf] = junk]
       /\ dead' = {NewBuf}
       /\ execs' = NoExecs
       /\ last' = IF last.op \in {"execute", "transact"} THEN NoLast ELSE last
       /\ UNCHANGED <<handle, calls, prevWrite, regs, ptr>>

\* a message vector handed to the transaction as it is: from_messages and
\* i2c_rdwr_ioctl, the error converted by `?`
Transact(rc, echo, fill) ==
    /\ bstate = "vec"
    /\ Rdwr("transact", "IoctlError", batch, log, mem, {}, {}, <<>>, rc, echo, fill)
    /\ UNCHANGED <<handle, bstate, batch, log, dead, execs>>

\* I2c::require_func on its own, as test_require_funcs calls it
RequireFunc(mask) ==
    LET r == require_func(handle.func, mask)
    IN /\ handle.st = "open"
       /\ last' = LastRec("require_func", IF r.ok THEN Ok ELSE Err("Functionality", "", r.missing),
                          handle.func, FALSE, 0, <<>>, <<>>, {}, {}, <<>>, <<mask>>)
       /\ prevWrite' = <<>>
       /\ UNCHANGED <<handle, bstate, batch, log, mem, dead, calls, execs, regs, ptr>>

\* the caller stores bytes of its own into a buffer nothing borrows
Fill(b, bytes) ==
    /\ b \in UserBufs \ Borrowed
    /\ bstate # "vec"
    /\ Len(bytes) = Len(mem[b])
    /\ mem' = [mem EXCEPT ![b] = bytes]
    /\ UNCHANGED <<handle, bstate, batch, log, dead, calls, execs, last, prevWrite, regs, ptr>>

(* --------------------------- specifications --------------------------- *)

ByteSeqs == SeqsUpTo(Byte, FillLen)
Payloads == {s \in ByteSeqs : Len(s) <= MaxLen}

\* what the I2C_RDWR ioctl may return
RcVals == {-1, 0, 1}

Init ==
    /\ handle = NoHandle
    /\ bstate = "none"
    /\ batch = <<>>
    /\ log = <<>>
    /\ mem = [b \in BufIds |-> IF b \in UserBufs THEN Zeros(b) ELSE <<>>]
    /\ dead = {}
    /\ calls = 0
    /\ execs = NoExecs
    /\ last = NoLast
    /\ prevWrite = <<>>
    /\ regs = [r \in Byte |-> 0]
    /\ ptr = 0

\* The call sites of the transaction: the three single-shot operations and the
\* builder's execute, on handles with and without the plain-I2C capability,
\* against an adapter that answers every read with zero bytes. A behaviour opens
\* handles until one open succeeds, and works on that handle from then on.
MainFuncs == {Bits(0), Bits(I2C_FUNC_I2C), Bits(I2C_FUNC_10BIT_ADDR), Bits(I2C_FUNC_I2C + I2C_FUNC_10BIT_ADDR)}
MainFlags == {Bits(0), Bits(I2C_M_RD + I2C_M_TEN)}
ZeroFill == Zeros(FillLen)

Next ==
    \/ /\ handle.st = "none"
       /\ \E c \in MainFuncs, fileOk \in BOOLEAN, frc \in RcVals : Open(118, c, fileOk, frc)
    \/ \E c \in MainFuncs : SetFunc(c)
    \/ I2cBufferNew
    \/ \E b \in UserBufs : AddRead(Bits(0), b)
    \/ \E b \in UserBufs : AddWrite(Bits(0), b)
    \/ \E rc \in RcVals : Execute(rc, FALSE, ZeroFill)
    \/ \E rc \in RcVals : I2cReadBytes(1, MaxLen, rc, FALSE, ZeroFill)
    \/ \E b \in UserBufs, rc \in RcVals : I2cRead(1, b, rc, FALSE, ZeroFill)
    \/ \E rc \in RcVals : I2cWrite(1, <<1>>, rc, FALSE, ZeroFill)

Spec == Init /\ [][Next]_vars

\* The builder: appends of every kind, and execute, any number of times.
NextBuilder ==
    \/ /\ handle.st = "none"
       /\ \E c \in MainFuncs : Open(118, c, TRUE, 0)
    \/ I2cBufferNew
    \/ \E f \in MainFlags, b \in UserBufs : AddRead(f, b)
    \/ \E f \in MainFlags, b \in UserBufs : AddWrite(f, b)
    \/ \E f \in MainFlags, b \in UserBufs : AddRaw(f, b)
    \/ \E rc \in RcVals : Execute(rc, FALSE, ZeroFill)

SpecBuilder == Init /\ [][NextBuilder]_vars

\* require_func on its own: every capability set and every requested mask over
\* the low bits, and the mask of all 64 bits.
FuncMasks == SUBSET (0 .. (FuncBits - 1)) \cup {0 .. (ULongWidth - 1)}

NextFunc ==
    \/ handle.st = "none" /\ Open(118, Bits(I2C_FUNC_I2C), TRUE, 0)
    \/ /\ last.op # "require_func"
       /\ \E c \in FuncMasks : SetFunc(c)
    \/ /\ last.op # "require_func"
       /\ \E m \in FuncMasks : RequireFunc(m)

SpecFunc == Init /\ [][NextFunc]_vars

\* I2c::open on its own: one open per behaviour, over the addresses around both
\* limits and the largest u16.
AddrVals == (0 .. (Addr10Max + 2)) \cup {32768, 65535}

NextOpen ==
    /\ last.op = "none"
    /\ \E a \in AddrVals, c \in MainFuncs, fileOk \in BOOLEAN, frc \in {-1, 0} :
          Open(a, c, fileOk, frc)

SpecOpen == Init /\ [][NextOpen]_vars

\* One append of each kind, over every combination of the flag bits the
\* program names and the top bit of the u16.
FlagBits == UNION {Bits(x) : x \in {I2C_M_RD, I2C_M_TEN, I2C_M_RECV_LEN, I2C_M_NO_RD_ACK,
                                    I2C_M_IGNORE_NACK, I2C_M_REV_DIR_ADDR, I2C_M_NOSTART}}
AllFlags == SUBSET (FlagBits \cup {U16Width - 1})

NextFlags ==
    \/ handle.st = "none" /\ Open(118, Bits(I2C_FUNC_I2C), TRUE, 0)
    \/ I2cBufferNew
    \/ /\ bstate = "building" /\ Len(batch) = 0
       /\ \E f \in AllFlags, b \in UserBufs : AddRead(f, b)
    \/ /\ bstate = "building" /\ Len(batch) = 0
       /\ \E f \in AllFlags, b \in UserBufs : AddWrite(f, b)
    \/ /\ bstate = "building" /\ Len(batch) = 0
       /\ \E f \in AllFlags, b \in UserBufs : AddRaw(f, b)

SpecFlags == Init /\ [][NextFlags]_vars

\* The driver against a device that stores the register bytes written to it and
\* returns them on read.
NextEcho ==
    \/ handle.st = "none" /\ Open(118, Bits(I2C_FUNC_I2C), TRUE, 0)
    \/ \E r \in Byte, d \in Payloads, rc \in {-1, 0} : I2cWrite(r, d, rc, TRUE, ZeroFill)
    \/ \E r \in Byte, n \in 1 .. MaxLen, rc \in {-1, 0} : I2cReadBytes(r, n, rc, TRUE, ZeroFill)
    \/ I2cBufferNew
    \/ \E bytes \in ByteSeqs : Fill(2, bytes)
    \/ Len(batch) = 0 /\ AddWrite(Bits(0), 2)
    \/ \E rc \in {-1, 0} : Execute(rc, TRUE, ZeroFill)

SpecEcho == Init /\ [][NextEcho]_vars

\* The message helpers of messages.rs, whose vectors go to the transaction as
\* they are, beside the operations of lib.rs, against an adapter that answers
\* every read with bytes the buffers did not hold at the start.
OnesFill == [i \in 1 .. FillLen |-> 1]

NextHelpers ==
    \/ /\ handle.st = "none"
       /\ \E c \in {Bits(0), Bits(I2C_FUNC_I2C)} : Open(118, c, TRUE, 0)
    \/ \E r \in Byte, b \in UserBufs, junk \in Byte : ReadReg(r, b, junk)
    \/ \E r \in Byte : \E junk \in {<<0, 0>>, <<r, 1>>} : WriteReg(r, <<1>>, junk)
    \/ \E rc \in {-1, 0} : Transact(rc, FALSE, OnesFill)
    \/ \E r \in Byte, b \in UserBufs, rc \in {-1, 0} : I2cRead(r, b, rc, FALSE, OnesFill)
    \/ I2cBufferNew
    \/ \E b \in UserBufs : AddRead(Bits(0), b)
    \/ \E b \in UserBufs : AddWrite(Bits(0), b)
    \/ \E rc \in {-1, 0} : Execute(rc, FALSE, OnesFill)

SpecHelpers == Init /\ [][NextHelpers]_vars

(* ------------------------------- claims ------------------------------- *)

TransactionOps == {"i2c_read", "i2c_read_bytes", "i2c_write", "execute"}

\* C1: on a handle whose capability set lacks the plain-I2C bit, every
\* operation that runs a batch (i2c_read, i2c_read_bytes, i2c_write, execute,
\* whatever the batch holds) fails with FunctionalityError, and the I2C_RDWR
\* ioctl is not invoked: the call count is what it was before the operation.
C1_NoCallWithoutCapability ==
    (last.op \in TransactionOps /\ 0 \notin last.func) =>
        /\ last.result.tag # "Ok"
        /\ last.result.inner = "FunctionalityError"
        /\ ~last.called
        /\ calls = last.callsBefore

C1_Witness ==
    /\ last.op = "execute"
    /\ 0 \notin last.func
    /\ Len(last.log) = 2
    /\ calls = 1
    /\ last.result.inner = "FunctionalityError"

\* C8: on a handle with the plain-I2C capability the return code of the ioctl
\* decides the outcome: non-negative is Ok, negative is the OS error wrapped in
\* the variant of the call site (ReadError for i2c_read and i2c_read_bytes,
\* WriteError for i2c_write, BufferError for execute) and in no other variant.
C8_OutcomeByReturnCode ==
    (last.op \in TransactionOps /\ 0 \in last.func) =>
        /\ last.called
        /\ last.rc >= 0 => last.result = Ok
        /\ last.rc < 0 =>
              /\ last.result.inner = "IoctlError"
              /\ last.op \in {"i2c_read", "i2c_read_bytes"} => last.result.tag = "ReadError"
              /\ last.op = "i2c_write" => last.result.tag = "WriteError"
              /\ last.op = "execute" => last.result.tag = "BufferError"

C8_Witness ==
    /\ last.op = "i2c_write"
    /\ 0 \in last.func
    /\ last.rc < 0
    /\ last.result.tag = "WriteError"
    /\ calls = 2

IsReadKind(k) == k \in {"read", "reg_read"}
IsWriteKind(k) == k \in {"write", "reg_select", "write_reg"}

\* C9: the message array holds the appended messages in the order of the
\* appends and nothing else, and the array handed to the transaction is that
\* array: same count, same order.
C9_AppendOrder ==
    /\ Len(batch) = Len(log)
    /\ \A i \in 1 .. Len(batch) :
          /\ i <= Len(log) => batch[i].buffer = log[i].buffer
          /\ (i <= Len(log) /\ IsReadKind(log[i].kind)) => IsRead(batch[i])
          /\ (i <= Len(log) /\ IsWriteKind(log[i].kind)) => ~IsRead(batch[i])
    /\ (last.op = "execute" /\ last.called) =>
          /\ Len(last.sent) = Len(last.log)
          /\ \A i \in 1 .. Len(last.sent) :
                i <= Len(last.log) =>
                    /\ last.sent[i].buffer = last.log[i].buffer
                    /\ IsReadKind(last.log[i].kind) => IsRead(last.sent[i])
                    /\ IsWriteKind(last.log[i].kind) => ~IsRead(last.sent[i])

C9_Witness ==
    /\ last.op = "execute"
    /\ last.called
    /\ Len(last.sent) = 2
    /\ last.log[1].kind = "raw"
    /\ last.log[2].kind = "write"
    /\ last.sent[1].buffer = 2
    /\ last.sent[2].buffer = 1

\* C2: require_func(m) on a handle with capability c is Ok exactly when no bit
\* of m is missing from c, and otherwise is Err carrying exactly the bits of m
\* that c lacks.
C2_RequireFuncMissingBits ==
    last.op = "require_func" =>
        LET c == last.func
            m == last.arg[1]
            unmet == {x \in m : x \notin c}
        IN /\ last.result = Ok <=> unmet = {}
           /\ unmet # {} => (last.result.tag # "Ok" /\ last.result.missing = unmet)

C2_Witness ==
    /\ last.op = "require_func"
    /\ last.func = Bits(22)
    /\ last.arg[1] = Bits(25)
    /\ last.result.missing = Bits(9)

\* C3: once the device is open and the capabilities are known, open(a) yields
\* a handle exactly when a <= 0x7F without the 10-bit capability, or
\* a <= 0x3FF with it; otherwise it yields AddressError and no handle.
C3_AddressRange ==
    (last.op = "open" /\ last.arg[2] = 1 /\ last.arg[3] >= 0) =>
        LET a == last.arg[1]
            limit == IF 1 \in last.func THEN 1023 ELSE 127
        IN /\ last.result = Ok <=> a <= limit
           /\ last.result = Ok => handle = [st |-> "open", addr |-> a, func |-> last.func]
           /\ last.result # Ok => (last.result.tag = "AddressError" /\ handle.st = "none")

C3_Witness ==
    /\ last.op = "open"
    /\ last.arg = <<1024, 1, 0>>
    /\ 1 \in last.func
    /\ last.result.tag = "AddressError"

\* C10: add_write appends flags f with bit 0x0001 cleared, add_read appends f
\* with bit 0x0001 set, add_raw appends f itself; every other bit is as in f,
\* and the length is the buffer's length.
C10_FlagsOfAppend ==
    \A i \in 1 .. Len(batch) :
        i <= Len(log) =>
            LET f == log[i].flags
                g == batch[i].flags
            IN /\ \A x \in 1 .. (U16Width - 1) : x \in g <=> x \in f
               /\ log[i].kind = "write" => 0 \notin g
               /\ log[i].kind = "read" => 0 \in g
               /\ log[i].kind = "raw" => (0 \in g <=> 0 \in f)
               /\ g \subseteq 0 .. (U16Width - 1)
               /\ batch[i].len = Len(mem[log[i].buffer])

C10_Witness ==
    /\ Len(batch) = 1
    /\ log[1].kind = "write"
    /\ log[1].flags = Bits(I2C_M_RD + I2C_M_NOSTART)
    /\ batch[1].flags = Bits(I2C_M_NOSTART)
    /\ batch[1].len = 2

\* C6: against the register device, a successful write of the one byte v to
\* register r (i2c_write(r, [v]), or a batch of one write message [r, v])
\* followed by a successful i2c_read_bytes(r, 1) returns [v].
C6_WriteThenRead ==
    (/\ last.op = "i2c_read_bytes"
     /\ last.result = Ok
     /\ last.arg[2] = 1
     /\ Len(prevWrite) = 2) =>
        (prevWrite[1] = last.arg[1] => last.ret = <<prevWrite[2]>>)

C6_Witness ==
    /\ last.op = "i2c_read_bytes"
    /\ last.result = Ok
    /\ last.arg = <<1, 1>>
    /\ prevWrite = <<1, 1>>
    /\ last.ret = <<1>>

\* C4: every register-read helper hands the transaction exactly two messages:
\* first a write of length 1 whose buffer holds the register r when the
\* transaction runs, then a read of the caller's buffer and of its length,
\* both to the same address.
C4_RegisterReadMessages ==
    (/\ last.called
     /\ last.op \in {"i2c_read", "i2c_read_bytes", "transact"}
     /\ Len(last.log) > 0) =>
        (last.log[1].kind = "reg_select" =>
            /\ Len(last.sent) = 2
            /\ ~IsRead(last.sent[1])
            /\ last.sent[1].len = 1
            /\ last.sent[1].data = <<last.log[1].reg>>
            /\ IsRead(last.sent[2])
            /\ last.sent[2].buffer = last.log[2].buffer
            /\ last.sent[2].len = Len(last.sent[2].data)
            /\ last.sent[2].addr = last.sent[1].addr)

\* C5: whatever execute() returns, no buffer added as a write buffer has
\* changed; on success every byte of every read buffer was stored into; on
\* failure no read buffer has changed.
C5_BufferFrame ==
    last.op \in {"i2c_read", "execute", "transact"} =>
        \A i \in 1 .. Len(last.log) :
            LET b == last.log[i].buffer
                k == last.log[i].kind
            IN /\ IsWriteKind(k) => b \notin last.changed
               /\ (IsReadKind(k) /\ last.result = Ok) =>
                     \A j \in 1 .. Len(mem[b]) : <<b, j>> \in last.written
               /\ (IsReadKind(k) /\ last.result # Ok) => b \notin last.changed

====
